---- MODULE Spec2Model ----
(***************************************************************************)
(* jetgan data pipeline: binning, jet-image rasterization, the paired       *)
(* jet/image record files and the Pythia/fastjet generation driver.        *)
(*                                                                         *)
(* Real-valued quantities (eta, phi, pt, axis bounds) are modelled in      *)
(* fixed point: every value is an integer number of grid units, and the    *)
(* enumerated image axes have a length that is a multiple of the bin       *)
(* count, so that (x_max - x_min) / x_bins is exact.                       *)
(***************************************************************************)
EXTENDS Integers, Sequences, FiniteSets, TLC

VARIABLES
  fbArgs, fbRet,            \* find_bin: the call's arguments and its return value
  jet, params, images,      \* pseudojet_to_image: the jet, the axes, the result per z_bins
  jet_file, image_file,     \* load_jet_images: the lines of the two files on disk,
  loadArgs, loaded,         \*   the call's image_width/height/channels and its outcome
  pc, args,                 \* generate_data.main: where the run is, its command line
  iter, streams, outcome,   \*   the loop counter, the four output streams, the last iteration's end
  retained,                 \*   how many iterations have written their matched pair
  initialized, warned,      \* PythiaGenerator: the status of init, whether init warned
  truth_particles, detector_particles, handed,
  gen_jet, det_jet, next_ret

binVars == <<fbArgs, fbRet>>
imgVars == <<jet, params, images>>
loadVars == <<jet_file, image_file, loadArgs, loaded>>
genVars == <<initialized, warned, truth_particles, detector_particles, handed,
             gen_jet, det_jet, next_ret>>
drvVars == <<pc, args, iter, streams, outcome, retained, initialized, warned, truth_particles,
             detector_particles, handed, gen_jet, det_jet, next_ret>>
vars == <<fbArgs, fbRet, jet, params, images, jet_file, image_file, loadArgs, loaded,
          pc, args, iter, streams, outcome, retained, initialized, warned, truth_particles,
          detector_particles, handed, gen_jet, det_jet, next_ret>>

\* a variable of a component that the specification at hand does not run
Idle == <<>>

BinIdle == fbArgs = Idle /\ fbRet = Idle
ImgIdle == jet = Idle /\ params = Idle /\ images = Idle
LoadIdle == jet_file = Idle /\ image_file = Idle /\ loadArgs = Idle /\ loaded = Idle
DrvIdle ==
  /\ pc = Idle /\ args = Idle /\ iter = Idle /\ streams = Idle /\ outcome = Idle
  /\ retained = Idle
  /\ initialized = Idle /\ warned = Idle /\ truth_particles = Idle
  /\ detector_particles = Idle /\ handed = Idle /\ gen_jet = Idle /\ det_jet = Idle
  /\ next_ret = Idle

------------------------------------------------------------------------------
(* image.py: find_bin *)

MaxBins == 3
MaxDelta == 2
MaxVal == 8

\* int((val - min_val) / delta): the quotient is never negative on the else
\* branch, so truncation toward zero is the floor
find_bin(val, nbins, min_val, delta) ==
  IF val < min_val THEN -1
  ELSE IF val > min_val + (nbins * delta) THEN -1
  ELSE (val - min_val) \div delta

InitBin ==
  /\ fbArgs \in [val : -2..MaxVal, nbins : 1..MaxBins, min_val : -1..1, delta : 1..MaxDelta]
  /\ fbRet = <<>>
  /\ ImgIdle /\ LoadIdle /\ DrvIdle

FindBinCall ==
  /\ fbRet = <<>>
  /\ fbRet' = <<find_bin(fbArgs.val, fbArgs.nbins, fbArgs.min_val, fbArgs.delta)>>
  /\ UNCHANGED <<fbArgs, imgVars, loadVars, drvVars>>

NextBin == FindBinCall

SpecBin == InitBin /\ [][NextBin]_vars

\* the closed range [min_val, min_val + nbins*delta] of find_bin's else branch
InRange(a) == a.min_val <= a.val /\ a.val <= a.min_val + a.nbins * a.delta

\* C1: for every val in the closed range [min_val, min_val + nbins*delta] the
\* result of find_bin is an index i with 0 <= i < nbins, and for every val
\* outside that range the result is the sentinel -1.
C1_FindBinContract ==
  fbRet # <<>> =>
    IF InRange(fbArgs) THEN 0 <= fbRet[1] /\ fbRet[1] < fbArgs.nbins
    ELSE fbRet[1] = -1

------------------------------------------------------------------------------
(* image.py: pseudojet_to_image *)

MaxConst == 2

\* half a turn and a full turn of the azimuth, in grid units
PiUnits == 4
TwoPiUnits == 8

Abs(n) == IF n < 0 THEN -n ELSE n

\* fastjet PseudoJet.delta_phi_to: the signed difference wrapped into [-pi, pi]
delta_phi_to(j, c) ==
  LET dphi == c.phi - j.phi
      d1 == IF dphi > PiUnits THEN dphi - TwoPiUnits ELSE dphi
  IN  IF d1 < -PiUnits THEN d1 + TwoPiUnits ELSE d1

\* np.zeros(shape=(x_bins, y_bins, z_bins))
ZeroImage(x_bins, y_bins, z_bins) ==
  [c \in (0..(x_bins - 1)) \X (0..(y_bins - 1)) \X (0..(z_bins - 1)) |-> 0]

\* numpy's index normalisation on one axis of length n: a negative index counts
\* from the end; -1 stands for an index out of bounds (IndexError)
NpIndex(i, n) ==
  IF 0 <= i /\ i < n THEN i
  ELSE IF -n <= i /\ i < 0 THEN n + i
  ELSE -1

\* the channel of a constituent: line 57
z_bin_of(charge, z_bins) == IF z_bins = 2 THEN Abs(charge) ELSE 0

\* the loop of lines 49-62 from constituent k on; the first out-of-bounds index
\* raises IndexError and ends the call
RECURSIVE FillImage(_, _, _, _)
FillImage(image, j, p, k) ==
  IF k > Len(j.constituents) THEN [kind |-> "image", cells |-> image]
  ELSE
    LET constituent == j.constituents[k]
        x_delta == (p.x_max - p.x_min) \div p.x_bins
        y_delta == (p.y_max - p.y_min) \div p.y_bins
        deta == constituent.eta - j.eta
        dphi == delta_phi_to(j, constituent)
        charge == constituent.user_index
        pt == constituent.pt
        x_bin == find_bin(deta, p.x_bins, p.x_min, x_delta)
        y_bin == find_bin(dphi, p.y_bins, p.y_min, y_delta)
        z_bin == z_bin_of(charge, p.z_bins)
        ix == NpIndex(x_bin, p.x_bins)
        iy == NpIndex(y_bin, p.y_bins)
        iz == NpIndex(z_bin, p.z_bins)
    IN  IF x_bin = -1 \/ y_bin = -1 THEN FillImage(image, j, p, k + 1)
        ELSE IF ix = -1 \/ iy = -1 \/ iz = -1
          THEN [kind |-> "IndexError", cells |-> image]
        ELSE FillImage([image EXCEPT ![<<ix, iy, iz>>] = @ + pt], j, p, k + 1)

pseudojet_to_image(j, p) ==
  FillImage(ZeroImage(p.x_bins, p.y_bins, p.z_bins), j, p, 1)

\* the inputs of the rasterizer
Charges == {-1, 0, 1, 2}
Constituents == [eta : -2..2, phi : {0, 1, 7}, user_index : Charges, pt : 1..2]

SeqsUpTo(S, n) == UNION {[1..m -> S] : m \in 0..n}

\* an axis of length 2 around the jet, cut into 1 or 2 bins
AxisParams == [x_bins : 1..2, x_min : {-1}, x_max : {1},
               y_bins : 1..2, y_min : {-1}, y_max : {1}]

WithZ(p, z) ==
  [x_bins |-> p.x_bins, x_min |-> p.x_min, x_max |-> p.x_max,
   y_bins |-> p.y_bins, y_min |-> p.y_min, y_max |-> p.y_max, z_bins |-> z]

NoImage == [kind |-> "none", cells |-> <<>>]

InitImage ==
  /\ jet \in [eta : {0}, phi : {0}, constituents : SeqsUpTo(Constituents, MaxConst)]
  /\ params \in AxisParams
  /\ images = [z \in 1..2 |-> NoImage]
  /\ BinIdle /\ LoadIdle /\ DrvIdle

\* one call of pseudojet_to_image on the jet, with z_bins = z
Rasterize(z) ==
  /\ images[z].kind = "none"
  /\ images' = [images EXCEPT ![z] = pseudojet_to_image(jet, WithZ(params, z))]
  /\ UNCHANGED <<jet, params, binVars, loadVars, drvVars>>

NextImage == \E z \in 1..2 : Rasterize(z)

SpecImage == InitImage /\ [][NextImage]_vars

RECURSIVE SumOver(_, _)
SumOver(f, S) ==
  IF S = {} THEN 0
  ELSE LET e == CHOOSE e \in S : TRUE IN f[e] + SumOver(f, S \ {e})

SumCells(cells) == SumOver(cells, DOMAIN cells)

\* constituent k of the jet lies in the closed window of the axes
InWindow(j, p, k) ==
  LET deta == j.constituents[k].eta - j.eta
      dphi == delta_phi_to(j, j.constituents[k])
  IN  /\ p.x_min <= deta /\ deta <= p.x_max
      /\ p.y_min <= dphi /\ dphi <= p.y_max

WindowPt(j, p) ==
  SumOver([k \in 1..Len(j.constituents) |-> j.constituents[k].pt],
          {k \in 1..Len(j.constituents) : InWindow(j, p, k)})

\* C2: the rasterizer conserves transverse momentum: the cells of the returned
\* image sum to the pt of exactly the constituents inside the closed window
\* [x_min, x_max] x [y_min, y_max], and every other constituent is skipped
\* without error.
C2_ConservesPt ==
  \A z \in 1..2 :
    images[z].kind # "none" =>
      /\ images[z].kind = "image"
      /\ SumCells(images[z].cells) = WindowPt(jet, params)

\* the pt of the in-window constituents of the jet that belong to channel ch
\* when a nonzero charge label means channel 1
ChannelPt(j, p, ch) ==
  SumOver([k \in 1..Len(j.constituents) |-> j.constituents[k].pt],
          {k \in 1..Len(j.constituents) :
             /\ InWindow(j, p, k)
             /\ (IF j.constituents[k].user_index # 0 THEN 1 ELSE 0) = ch})

\* C3: charge splitting: with identical axes, the z_bins = 2 image holds every
\* in-window constituent in channel 1 when its charge label is nonzero and in
\* channel 0 otherwise, so channel 0 plus channel 1 equals the cell of the
\* z_bins = 1 image, for every (x, y) and every integer charge label.
C3_ChargeSplit ==
  (images[1].kind = "image" /\ images[2].kind # "none") =>
    /\ images[2].kind = "image"
    /\ \A x \in 0..(params.x_bins - 1), y \in 0..(params.y_bins - 1) :
         images[2].cells[<<x, y, 0>>] + images[2].cells[<<x, y, 1>>]
           = images[1].cells[<<x, y, 0>>]
    /\ \A ch \in 0..1 :
         SumOver([c \in DOMAIN images[2].cells |-> images[2].cells[c]],
                 {c \in DOMAIN images[2].cells : c[3] = ch})
           = ChannelPt(jet, params, ch)

------------------------------------------------------------------------------
(* image.py: write_image_to_file, load_jet_images *)

MaxRows == 2

\* what one unit of the sixth decimal digit is worth, in the units image cells
\* are held in: '%.6f' keeps micro units
CellsPerMicro == 2

\* '%.6f' % f: the nearest multiple of 1e-6, ties to even, as a count of micro units
Format6(f) ==
  LET q == f \div CellsPerMicro
      r == f % CellsPerMicro
  IN  IF 2 * r < CellsPerMicro THEN q
      ELSE IF 2 * r > CellsPerMicro THEN q + 1
      ELSE IF q % 2 = 0 THEN q ELSE q + 1

\* image.flatten(): row-major over (x, y, z)
Flatten(image) ==
  LET sh == image.shape
  IN  [n \in 1..(sh[1] * sh[2] * sh[3]) |->
         image.cells[<<(n - 1) \div (sh[2] * sh[3]),
                       ((n - 1) \div sh[3]) % sh[2],
                       (n - 1) % sh[3]>>]]

\* the line write_image_to_file adds to the jet file: '{}, {}, {}, {}\n'
JetLine(j) == <<j.pt, j.eta, j.phi, j.m>>

\* the line write_image_to_file adds to the image file
ImageLine(image) ==
  LET flattened_image == Flatten(image)
  IN  [n \in 1..Len(flattened_image) |-> Format6(flattened_image[n])]

\* np.float32 of a parsed field: 24 significant bits, ties to even
RECURSIVE Float32Step(_, _)
Float32Step(n, ulp) ==
  IF n < 16777216 * ulp THEN
    LET q == n \div ulp
        r == n % ulp
    IN  IF 2 * r < ulp THEN q * ulp
        ELSE IF 2 * r > ulp THEN (q + 1) * ulp
        ELSE IF q % 2 = 0 THEN q * ulp ELSE (q + 1) * ulp
  ELSE Float32Step(n, 2 * ulp)

Float32(n) == IF n < 0 THEN -Float32Step(-n, 1) ELSE Float32Step(n, 1)

\* read_csv(file, names=range(ncols), index_col=False, header=None,
\* dtype=np.float32): one row per line and exactly ncols columns per row; a
\* short line is padded with NaN (<<>>), a long one loses its trailing fields
ReadCsv(lines, ncols) ==
  [i \in 1..Len(lines) |->
     [k \in 1..ncols |->
        IF k <= Len(lines[i]) THEN <<Float32(lines[i][k])>> ELSE <<>>]]

\* values.reshape((rows, image_width, image_height, image_channels))
Reshape(rows, w, h, c) ==
  [i \in 1..Len(rows) |->
     [x \in (0..(w - 1)) \X (0..(h - 1)) \X (0..(c - 1)) |->
        rows[i][(x[1] * h + x[2]) * c + x[3] + 1]]]

load_jet_images_unchecked(jf, imf, image_width, image_height, image_channels) ==
  LET image_size == image_width * image_height * image_channels
      df_images == ReadCsv(imf, image_size)
      df_jets == ReadCsv(jf, image_size)
  IN  [kind |-> "ok", jets |-> df_jets,
       jets_shape |-> <<Len(df_jets), image_size>>,
       images |-> Reshape(df_images, image_width, image_height, image_channels),
       images_shape |-> <<Len(df_images), image_width, image_height, image_channels>>]

load_jet_images(jf, imf, image_width, image_height, image_channels) ==
  LET image_size == image_width * image_height * image_channels
      df_images == ReadCsv(imf, image_size)
      df_jets == ReadCsv(jf, image_size)
      imgs == Reshape(df_images, image_width, image_height, image_channels)
      jets == df_jets
  IN  IF Len(imgs) # Len(jets)
        THEN [kind |-> "AssertionError", jets |-> <<>>, jets_shape |-> <<>>,
              images |-> <<>>, images_shape |-> <<>>]
        ELSE [kind |-> "ok", jets |-> jets,
              jets_shape |-> <<Len(jets), image_size>>,
              images |-> imgs,
              images_shape |-> <<Len(imgs), image_width, image_height, image_channels>>]

\* the jets and images whose records the files hold: (pt, eta, phi, m) in micro
\* units, images of shape (1, 1, 2)
FileJets == {[pt |-> 5, eta |-> -1, phi |-> 2, m |-> 1],
             [pt |-> 16777217, eta |-> 1, phi |-> 0, m |-> 3]}
FileImages == {[shape |-> <<1, 1, 2>>, cells |-> (<<0, 0, 0>> :> a @@ <<0, 0, 1>> :> b)] :
                 a \in {0, 3}, b \in {1, 4}}

NotLoaded == [kind |-> "none", jets |-> <<>>, jets_shape |-> <<>>,
              images |-> <<>>, images_shape |-> <<>>]

InitLoad ==
  /\ jet_file \in SeqsUpTo({JetLine(j) : j \in FileJets}, MaxRows)
  /\ image_file \in SeqsUpTo({ImageLine(im) : im \in FileImages}, MaxRows)
  /\ loadArgs \in [image_width : 1..2, image_height : {1}, image_channels : 1..2]
  /\ loaded = NotLoaded
  /\ BinIdle /\ ImgIdle /\ DrvIdle

\* a writer that leaves the image line out
write_jet_line_only(jf, imf, j, image) ==
  [jet_file |-> Append(jf, JetLine(j)), image_file |-> imf]

\* write_image_to_file(jet_file, image_file, jet, image): one line to each
write_image_to_file(jf, imf, j, image) ==
  [jet_file |-> Append(jf, JetLine(j)), image_file |-> Append(imf, ImageLine(image))]

WriteImage ==
  /\ loaded.kind = "none"
  /\ Len(jet_file) < MaxRows /\ Len(image_file) < MaxRows
  /\ \E j \in FileJets, im \in FileImages :
       LET w == write_image_to_file(jet_file, image_file, j, im)
       IN  jet_file' = w.jet_file /\ image_file' = w.image_file
  /\ UNCHANGED <<loadArgs, loaded, binVars, imgVars, drvVars>>

Load ==
  /\ loaded.kind = "none"
  /\ loaded' = load_jet_images(jet_file, image_file, loadArgs.image_width,
                               loadArgs.image_height, loadArgs.image_channels)
  /\ UNCHANGED <<jet_file, image_file, loadArgs, binVars, imgVars, drvVars>>

NextLoad == WriteImage \/ Load

SpecLoad == InitLoad /\ [][NextLoad]_vars

\* C7: load_jet_images on a jet file and an image file whose row counts differ
\* fails with the shape-mismatch error (the AssertionError of line 88) and
\* returns neither the jet array nor the image array.
C7_MismatchFails ==
  (loaded.kind # "none" /\ Len(jet_file) # Len(image_file)) =>
    /\ loaded.kind = "AssertionError"
    /\ loaded.jets = <<>> /\ loaded.images = <<>>

C7_Witness ==
  /\ loaded.kind = "AssertionError"
  /\ Len(jet_file) # Len(image_file)
  /\ Len(jet_file) > 0 /\ Len(image_file) > 0

\* C8: on files of n >= 1 rows written by write_image_to_file, load_jet_images
\* returns a jet array of shape (n, 4) and an image array of shape
\* (n, image_width, image_height, image_channels), row i of each array holding
\* the values of line i of its file.
C8_LoadShapes ==
  LET n == Len(jet_file)
      w == loadArgs.image_width
      h == loadArgs.image_height
      c == loadArgs.image_channels
  IN  (/\ loaded.kind # "none"
       /\ n >= 1 /\ Len(image_file) = n
       /\ \A i \in 1..n : Len(image_file[i]) = w * h * c) =>
        /\ loaded.kind = "ok"
        /\ loaded.jets_shape = <<n, 4>>
        /\ loaded.images_shape = <<n, w, h, c>>
        /\ \A i \in 1..n :
             /\ loaded.jets[i] = [k \in 1..4 |-> <<Float32(jet_file[i][k])>>]
             /\ \A k \in 1..(w * h * c) :
                  loaded.images[i][<<(k - 1) \div (h * c), ((k - 1) \div c) % h, (k - 1) % c>>]
                    = <<Float32(image_file[i][k])>>

------------------------------------------------------------------------------
(* generators.py: PythiaGenerator *)

MaxParticles == 2

\* the cuts of the run, in grid units
JetRadius == 1
TrackPtMin == 1
TrackPtMax == 4
TrackEtaMax == 2
JetPtMin == 2

\* __init__: self.jet_eta_max = track_eta_max - jet_radius
JetEtaMax == TrackEtaMax - JetRadius

\* the final, visible particles Pythia can put in an event (after MakePseudoJet:
\* the momentum and the charge as user_index), and the events made of them
ParticlePool ==
  <<[pt |-> 2, eta |-> 1, phi |-> 0, user_index |-> 1],
    [pt |-> 1, eta |-> 1, phi |-> 1, user_index |-> 0],
    [pt |-> 1, eta |-> -1, phi |-> 0, user_index |-> -1]>>

RECURSIVE Pick(_, _, _)
\* the elements of seq whose index is in S, in the order of seq, from index k on
Pick(seq, S, k) ==
  IF k > Len(seq) THEN <<>>
  ELSE IF k \in S THEN <<seq[k]>> \o Pick(seq, S, k + 1)
  ELSE Pick(seq, S, k + 1)

PythiaEvents ==
  {Pick(ParticlePool, S, 1) :
     S \in {T \in SUBSET (1..Len(ParticlePool)) : Cardinality(T) <= MaxParticles}}

\* the samples gauss_gen can return for one particle
SmearFactors == {1, 3}

\* smearing[k] * truth_particles[k]: the 4-momentum scaled, direction and
\* user_index kept
Scale(p, f) == [pt |-> f * p.pt, eta |-> p.eta, phi |-> p.phi, user_index |-> p.user_index]

\* fastjet.SelectorAbsEtaMax(track_eta_max) * fastjet.SelectorPtRange(min, max)
track_selector(ps) ==
  SelectSeq(ps, LAMBDA q : Abs(q.eta) <= TrackEtaMax /\ TrackPtMin <= q.pt /\ q.pt <= TrackPtMax)

\* the value of self.detector_particles when smear_tracks reaches "apply
\* selector", i.e. what is handed to the track selector
smeared(truth, flags, smearing) ==
  IF flags.gauss_smear THEN [k \in 1..Len(truth) |-> Scale(truth[k], smearing[k])]
  ELSE IF flags.tpc_sim THEN truth
  ELSE IF flags.star_sim THEN truth
  ELSE <<>>

\* squared distance of two directions, as SelectorCircle and the clustering see it
Dist2(a, b) ==
  LET deta == b.eta - a.eta
      dphi == delta_phi_to(a, b)
  IN  deta * deta + dphi * dphi

\* the jet fastjet makes of the particles with indices B: the axis of its
\* hardest constituent, the summed pt
Hardest(ps, B) ==
  CHOOSE h \in B : \A k \in B : ps[h].pt > ps[k].pt \/ (ps[h].pt = ps[k].pt /\ h <= k)

MakeJet(ps, B) ==
  LET h == Hardest(ps, B)
  IN  [pt |-> SumOver([k \in 1..Len(ps) |-> ps[k].pt], B),
       eta |-> ps[h].eta, phi |-> ps[h].phi, m |-> Cardinality(B) - 1,
       constituents |-> Pick(ps, B, 1)]

\* fastjet.ClusterSequence(particles, jet_def).inclusive_jets(): every particle
\* ends in exactly one jet, and a jet holds particles within the jet radius of
\* its axis; which of these partitions anti-kt builds is left open
inclusive_jets(ps) ==
  LET idx == 1..Len(ps)
      blocks == {B \in SUBSET idx :
                   /\ B # {}
                   /\ \A k \in B : Dist2(ps[Hardest(ps, B)], ps[k]) <= JetRadius * JetRadius}
  IN  {{MakeJet(ps, B) : B \in P} :
         P \in {Q \in SUBSET blocks :
                  /\ UNION Q = idx
                  /\ \A A \in Q, B \in Q : A # B => A \cap B = {}}}

\* fastjet.SelectorAbsEtaMax(jet_eta_max) * fastjet.SelectorPtMin(jet_pt_min)
jet_selector(jets) == {j \in jets : Abs(j.eta) <= JetEtaMax /\ j.pt >= JetPtMin}

\* fastjet.sorted_by_pt of a set of jets: descending pt, jets of equal pt in
\* either order
sorted_by_pt(jets) ==
  {q \in [1..Cardinality(jets) -> jets] :
     /\ \A a \in 1..Len(q), b \in 1..Len(q) : a < b => q[a].pt >= q[b].pt /\ q[a] # q[b]}

\* next(), lines 145-146: self.gen_jet = [] and self.det_jet = []
keep_jets(jets) == jets

clear_jets(jets) == <<>>

\* PythiaGenerator.init(): the status of gen.init(), and the warning when no
\* detector simulation is chosen
GenInit(ok) ==
  /\ initialized' = ok
  /\ warned' = (~args.star_sim /\ ~args.gauss_smear /\ ~args.tpc_sim)
  /\ UNCHANGED <<truth_particles, detector_particles, handed, gen_jet, det_jet, next_ret>>

\* PythiaGenerator.next() when gen.next() fails: the lists are reset and False
\* is returned; self.detector_particles keeps the previous event's tracks
GenNextFail ==
  /\ gen_jet' = clear_jets(gen_jet)
  /\ det_jet' = clear_jets(det_jet)
  /\ truth_particles' = <<>>
  /\ next_ret' = "False"
  /\ UNCHANGED <<initialized, warned, detector_particles, handed>>

\* PythiaGenerator.next() on the event ev: smear_tracks with the samples
\* smearing, then both clusterings; the method returns None
GenNextOk(ev, smearing) ==
  LET handed_over == smeared(ev, args, smearing)
      selected == track_selector(handed_over)
  IN  /\ truth_particles' = ev
      /\ handed' = handed_over
      /\ detector_particles' = selected
      /\ \E tj \in inclusive_jets(ev), dj \in inclusive_jets(selected) :
           /\ gen_jet' \in sorted_by_pt(jet_selector(tj))
           /\ det_jet' \in sorted_by_pt(jet_selector(dj))
      /\ next_ret' = "None"
      /\ UNCHANGED <<initialized, warned>>

------------------------------------------------------------------------------
(* generate_data.py: main *)

MaxEvents == 3

\* --image-width-eta / 2 and --image-width-phi / 2, --pixels-eta, --pixels-phi
ImageHalfWidth == 1
Pixels == 2

\* streams[1..4] are det_jet_file, det_image_file, gen_jet_file, gen_image_file

\* image_params of lines 28-35
image_params(a) ==
  [x_bins |-> Pixels, x_min |-> -ImageHalfWidth, x_max |-> ImageHalfWidth,
   y_bins |-> Pixels, y_min |-> -ImageHalfWidth, y_max |-> ImageHalfWidth,
   z_bins |-> IF a.split_charge THEN 2 ELSE 1]

\* insertion of jet j into the pt-descending sequence q, after the jets of equal
\* pt: fastjet.sorted_by_pt on a sequence is a stable sort
RECURSIVE InsertByPt(_, _)
InsertByPt(q, j) ==
  IF q = <<>> THEN <<j>>
  ELSE IF j.pt > q[1].pt THEN <<j>> \o q
  ELSE <<q[1]>> \o InsertByPt(Tail(q), j)

RECURSIVE stable_sorted_by_pt(_)
stable_sorted_by_pt(q) ==
  IF q = <<>> THEN <<>>
  ELSE InsertByPt(stable_sorted_by_pt(SubSeq(q, 1, Len(q) - 1)), q[Len(q)])

\* fastjet.SelectorCircle(jet_radius) with reference truth_jet, applied to det_jets
circle_selector(truth_jet, det_jets) ==
  SelectSeq(det_jets, LAMBDA d : Dist2(d, truth_jet) <= JetRadius * JetRadius)

\* lines 77-85: the truth jet and the candidates of the match
match_leading_detector(gen_jets, det_jets) ==
  [truth_jet |-> gen_jets[1], candidates |-> det_jets]

match(gen_jets, det_jets) ==
  LET truth_jet == gen_jets[1]
  IN  [truth_jet |-> truth_jet,
       candidates |-> stable_sorted_by_pt(circle_selector(truth_jet, det_jets))]

\* the stream s once the iteration of event ev has left it holding the lines
\* new_lines: the lines this iteration added are recorded as coming from ev
written(s, ev, new_lines) ==
  [s EXCEPT !.lines = new_lines,
            !.origin = @ \o [k \in 1..(Len(new_lines) - Len(s.lines)) |-> ev]]

AsImage(r, p) == [shape |-> <<p.x_bins, p.y_bins, p.z_bins>>, cells |-> r.cells]

InitDriver ==
  /\ pc = "start"
  /\ args \in [gauss_smear : BOOLEAN, tpc_sim : BOOLEAN, star_sim : BOOLEAN,
               split_charge : BOOLEAN, events : 1..MaxEvents]
  /\ iter = 0
  /\ streams = [f \in 1..4 |-> [state |-> "unopened", lines |-> <<>>, origin |-> <<>>,
                                 closes |-> 0]]
  /\ outcome = "none"
  /\ retained = 0
  /\ initialized = FALSE
  /\ warned = FALSE
  /\ truth_particles = <<>>
  /\ detector_particles = <<>>
  /\ handed = <<>>
  /\ gen_jet = <<>>
  /\ det_jet = <<>>
  /\ next_ret = "none"
  /\ BinIdle /\ ImgIdle /\ LoadIdle

\* lines 20-25: the generator is built and g.init() is called; its status is
\* not looked at
CallInit ==
  /\ pc = "start"
  /\ \E ok \in BOOLEAN : GenInit(ok)
  /\ pc' = "open"
  /\ UNCHANGED <<args, iter, streams, outcome, retained, binVars, imgVars, loadVars>>

\* lines 54-62: the four files are opened for writing, in the order det_jet,
\* det_image, gen_jet, gen_image; an open that fails raises OSError out of main
OpenFiles ==
  /\ pc = "open"
  /\ \E n \in 0..4 :
       /\ streams' = [f \in 1..4 |->
                        IF f <= n THEN [streams[f] EXCEPT !.state = "open"] ELSE streams[f]]
       /\ pc' = IF n = 4 THEN "loop" ELSE "raised"
  /\ UNCHANGED <<args, iter, outcome, retained, genVars, binVars, imgVars, loadVars>>

\* line 67: g.next(); an uninitialized Pythia generates nothing
CallNext ==
  /\ pc = "loop" /\ iter < args.events
  /\ \/ GenNextFail
     \/ /\ initialized
        /\ \E ev \in PythiaEvents :
             \E smearing \in (IF args.gauss_smear THEN [1..Len(ev) -> SmearFactors]
                              ELSE {[k \in 1..Len(ev) |-> 1]}) :
               GenNextOk(ev, smearing)
  /\ pc' = "body"
  /\ UNCHANGED <<args, iter, streams, outcome, retained, binVars, imgVars, loadVars>>

\* lines 70-93: the rest of one iteration
LoopBody ==
  /\ pc = "body"
  /\ LET det_jets == det_jet
         gen_jets == gen_jet
     IN  IF Len(det_jets) = 0 \/ Len(gen_jets) = 0
           THEN /\ outcome' = "no_jets" /\ pc' = "loop" /\ streams' = streams
                /\ retained' = retained
         ELSE
           LET m == match(gen_jets, det_jets)
           IN  IF Len(m.candidates) = 0
                 THEN /\ outcome' = "no_match" /\ pc' = "loop" /\ streams' = streams
                      /\ retained' = retained
               ELSE
                 LET detector_jet == m.candidates[1]
                     p == image_params(args)
                     det_jet_image == pseudojet_to_image(detector_jet, p)
                     gen_jet_image == pseudojet_to_image(m.truth_jet, p)
                 IN  IF det_jet_image.kind # "image" \/ gen_jet_image.kind # "image"
                       THEN /\ outcome' = "IndexError" /\ pc' = "raised"
                            /\ streams' = streams /\ retained' = retained
                     ELSE
                       LET d == write_image_to_file(streams[1].lines, streams[2].lines,
                                                    detector_jet, AsImage(det_jet_image, p))
                           g == write_image_to_file(streams[3].lines, streams[4].lines,
                                                    m.truth_jet, AsImage(gen_jet_image, p))
                       IN  /\ outcome' = "written" /\ pc' = "loop"
                           /\ retained' = retained + 1
                           /\ streams' = [f \in 1..4 |->
                                 written(streams[f], iter + 1,
                                         <<d.jet_file, d.image_file,
                                           g.jet_file, g.image_file>>[f])]
  /\ iter' = iter + 1
  /\ UNCHANGED <<args, genVars, binVars, imgVars, loadVars>>

\* the loop is exhausted and main returns; no statement of main closes a file
Return ==
  /\ pc = "loop" /\ iter = args.events
  /\ pc' = "done"
  /\ UNCHANGED <<args, iter, streams, outcome, retained, genVars, binVars, imgVars, loadVars>>

Next == CallInit \/ OpenFiles \/ CallNext \/ LoopBody \/ Return

Spec == InitDriver /\ [][Next]_vars

------------------------------------------------------------------------------
(* the driver's properties *)

\* the detector jets within the matching radius of the leading generator jet
Near == {k \in 1..Len(det_jet) : Dist2(det_jet[k], gen_jet[1]) <= JetRadius * JetRadius}

NoPair == Len(det_jet) = 0 \/ Len(gen_jet) = 0 \/ Near = {}

LinesUnchanged == \A f \in 1..4 : streams'[f].lines = streams[f].lines

RasterLine(j) ==
  ImageLine(AsImage(pseudojet_to_image(j, image_params(args)), image_params(args)))

\* C4: in every iteration with both jet lists non-empty, the truth jet written
\* is the first generator jet and the detector jet written is a highest-pt
\* detector jet among those within jet_radius of that truth jet; when no
\* detector jet is within the radius, or a list is empty, the iteration writes
\* no pair.
C4_Matching ==
  [][pc = "body" =>
       IF NoPair THEN LinesUnchanged
       ELSE \/ LinesUnchanged /\ pc' = "raised"
            \/ \E k \in Near :
                 /\ \A l \in Near : det_jet[k].pt >= det_jet[l].pt
                 /\ streams'[1].lines = Append(streams[1].lines, JetLine(det_jet[k]))
                 /\ streams'[2].lines = Append(streams[2].lines, RasterLine(det_jet[k]))
                 /\ streams'[3].lines = Append(streams[3].lines, JetLine(gen_jet[1]))
                 /\ streams'[4].lines = Append(streams[4].lines, RasterLine(gen_jet[1]))]_vars

\* a pair was written whose detector jet is not the leading detector jet, the
\* leading one lying outside the radius
C4_Witness ==
  /\ pc = "loop" /\ outcome = "written"
  /\ Len(det_jet) >= 2 /\ Len(gen_jet) >= 1
  /\ Dist2(det_jet[1], gen_jet[1]) > JetRadius * JetRadius
  /\ det_jet[1].pt > det_jet[2].pt
  /\ streams[1].lines[Len(streams[1].lines)] = JetLine(det_jet[2])
  /\ streams[3].lines[Len(streams[3].lines)] = JetLine(gen_jet[1])

\* C5: each of the four output files opened by main is closed exactly once,
\* when the loop has run its iterations or when an exception raised inside an
\* iteration leaves the loop: no run ends with one of the streams still open.
C5_StreamsClosed ==
  (pc = "done" \/ (pc = "raised" /\ outcome = "IndexError")) =>
    \A f \in 1..4 : streams[f].state = "closed" /\ streams[f].closes = 1

\* C6: smear_tracks hands gaussian-smeared particles to the track selector when
\* gauss_smear is set; otherwise (tpc_sim, star_sim, or no flag at all) it hands
\* over exactly the truth particles, the no-flag case only adding init's warning.
C6_SmearPolicy ==
  (pc = "body" /\ next_ret = "None") =>
    /\ IF args.gauss_smear
         THEN \E smearing \in [1..Len(truth_particles) -> SmearFactors] :
                handed = [k \in 1..Len(truth_particles) |->
                            Scale(truth_particles[k], smearing[k])]
         ELSE handed = truth_particles
    /\ (~args.gauss_smear /\ ~args.tpc_sim /\ ~args.star_sim) => warned

\* C9: when init() reports that the generator failed to initialize, the run is
\* aborted before the per-event loop runs: no iteration starts, the generator
\* is never asked for an event, and nothing is written.
C9_InitFailureFatal ==
  (pc # "start" /\ ~initialized) =>
    /\ pc \in {"open", "loop", "raised"}
    /\ iter = 0 /\ next_ret = "none"

\* an iteration whose event is skipped: the generation failed, a jet list is
\* empty, or no detector jet lies within the matching radius
SkipCondition == next_ret = "False" \/ NoPair

\* C10: a skip condition stays inside its iteration: the iteration writes
\* nothing to any of the four streams and the loop goes on with the next event;
\* after a failed generation detector_jets() and generator_jets() are empty, so
\* the jets of an earlier event are never matched or written again.
C10_SkipsStayLocal ==
  [][/\ (pc' = "body" /\ next_ret' = "False") => (gen_jet' = <<>> /\ det_jet' = <<>>)
     /\ (pc = "body" /\ SkipCondition) =>
          /\ \A f \in 1..4 : streams'[f] = streams[f]
          /\ pc' = "loop" /\ iter' = iter + 1]_vars

\* an event was written, the next generation failed, and its iteration ended
\* with the files as they were
C10_Witness ==
  /\ pc = "loop" /\ iter = 2 /\ next_ret = "False" /\ outcome = "no_jets"
  /\ gen_jet = <<>> /\ det_jet = <<>>
  /\ \A f \in 1..4 : Len(streams[f].lines) = 1

\* C11: after any number of completed iterations the detector-jet, the
\* detector-image, the generator-jet and the generator-image file hold the same
\* number of lines, the number of events retained so far, and line k of each
\* of the four files comes from the same event.
C11_RecordParity ==
  pc \in {"loop", "body", "done", "raised"} =>
    \A f \in 1..4 :
      /\ Len(streams[f].lines) = retained
      /\ Len(streams[f].origin) = Len(streams[f].lines)
      /\ \A k \in 1..Len(streams[f].lines) : streams[f].origin[k] = streams[1].origin[k]

\* two events were retained with a skipped one between them
C11_Witness ==
  /\ pc = "loop" /\ iter = 3 /\ retained = 2
  /\ \A f \in 1..4 : Len(streams[f].lines) = 2 /\ streams[f].origin = <<1, 3>>

====
